---- MODULE Spec2Model ----
(***************************************************************************)
(* Model of the script-generator web app: the App component's state and    *)
(* handlers (src/utils/zipUtils.ts), the file-tree helper buildFileTree,   *)
(* the archive helper createAndDownloadZip and the response validation of  *)
(* generateScriptBundle (src/services/geminiService.ts).                   *)
(*                                                                         *)
(* Strings that the code inspects character by character (file names,      *)
(* the prompt) are sequences of one-character strings.  The API response   *)
(* text is a sequence of JSON tokens, parsed by a recursive-descent model  *)
(* of JSON.parse.                                                          *)
(***************************************************************************)
EXTENDS Integers, Sequences, FiniteSets, TLC

VARIABLES
    \* ---- App component state (useState hooks, zipUtils.ts:99-112)
    prompt, language, platform, moduleSystem, database, image,
    chatHistory, isFirstRequest, isLoading, error, viewingFile,
    \* ---- environment of the App
    requests,      \* handleSubmit invocations suspended at the await (line 153)
    apiCalls,      \* number of calls of ai.models.generateContent so far
    guardHit,      \* the latest handleSubmit invocation returned at line 141
    downloaded,    \* what the latest createAndDownloadZip call received and built
    \* ---- harness of the pure functions
    responseText, bundle,    \* an API response text and generateScriptBundle's outcome
    files, fileTree          \* a file list and buildFileTree's outcome

appVars == <<prompt, language, platform, moduleSystem, database, image,
             chatHistory, isFirstRequest, isLoading, error, viewingFile,
             requests, apiCalls, guardHit, downloaded>>
parseVars == <<responseText, bundle>>
treeVars == <<files, fileTree>>
harnessVars == <<parseVars, treeVars>>
vars == <<appVars, parseVars, treeVars>>

\* ------------------------------------------------------------------ bounds
MaxTurns == 2        \* accepted submissions explored by the App specification
MaxTextLen == 6      \* tokens of a response text in the parse harness
MaxNameLen == 3      \* characters of a file name in the tree harness
MaxFiles == 2        \* files of a file list in the tree harness

\* ------------------------------------------------------------ small helpers
\* an optional value (T | null, T | undefined): absent, or one value
None == <<>>
Some(x) == <<x>>

SeqsUpTo(S, n) == UNION {[1..k -> S] : k \in 0..n}

Last(s) == s[Len(s)]

\* ------------------------------------------------- JSON text and JSON.parse
\* Tokens of a response text.
WS == [k |-> "ws"]
LBRACE == [k |-> "lbrace"]
RBRACE == [k |-> "rbrace"]
LBRACK == [k |-> "lbrack"]
RBRACK == [k |-> "rbrack"]
COMMA == [k |-> "comma"]
NULLTOK == [k |-> "null"]
KEY(name) == [k |-> "key", name |-> name]           \* "name":
FILETOK(f) == [k |-> "file", f |-> f]                \* {"name":..,"content":..}

\* JavaScript values produced by JSON.parse.
NullV == [t |-> "null"]
ArrV(elems) == [t |-> "arr", elems |-> elems]
ObjV(members) == [t |-> "obj", members |-> members]
EmptyMembers == [x \in {} |-> NullV]

ParseFail == [ok |-> FALSE, v |-> NullV, n |-> 0]
ParseOk(v, n) == [ok |-> TRUE, v |-> v, n |-> n]

RECURSIVE SkipWs(_, _)
SkipWs(t, i) == IF i <= Len(t) /\ t[i].k = "ws" THEN SkipWs(t, i + 1) ELSE i

RECURSIVE ParseValue(_, _), ParseElems(_, _, _), ParseMembers(_, _, _)
\* value at or after position i (leading whitespace skipped)
ParseValue(t, i) ==
    LET j == SkipWs(t, i) IN
    IF j > Len(t) THEN ParseFail
    ELSE CASE t[j].k = "null" -> ParseOk(NullV, j + 1)
           [] t[j].k = "file" -> ParseOk(ObjV(t[j].f), j + 1)
           [] t[j].k = "lbrack" ->
                LET j2 == SkipWs(t, j + 1) IN
                IF j2 <= Len(t) /\ t[j2].k = "rbrack"
                THEN ParseOk(ArrV(<<>>), j2 + 1)
                ELSE ParseElems(t, j + 1, <<>>)
           [] t[j].k = "lbrace" ->
                LET j2 == SkipWs(t, j + 1) IN
                IF j2 <= Len(t) /\ t[j2].k = "rbrace"
                THEN ParseOk(ObjV(EmptyMembers), j2 + 1)
                ELSE ParseMembers(t, j + 1, EmptyMembers)
           [] OTHER -> ParseFail

\* one or more comma-separated values, then "]"
ParseElems(t, i, acc) ==
    LET r == ParseValue(t, i) IN
    IF ~r.ok THEN ParseFail
    ELSE LET j == SkipWs(t, r.n)
             acc2 == Append(acc, r.v) IN
         IF j > Len(t) THEN ParseFail
         ELSE CASE t[j].k = "rbrack" -> ParseOk(ArrV(acc2), j + 1)
                [] t[j].k = "comma" -> ParseElems(t, j + 1, acc2)
                [] OTHER -> ParseFail

\* one or more comma-separated "key": value members, then "}"; a repeated
\* key keeps its last value
ParseMembers(t, i, acc) ==
    LET j0 == SkipWs(t, i) IN
    IF j0 > Len(t) \/ t[j0].k # "key" THEN ParseFail
    ELSE LET r == ParseValue(t, j0 + 1) IN
         IF ~r.ok THEN ParseFail
         ELSE LET j == SkipWs(t, r.n)
                  key == t[j0].name
                  acc2 == [x \in DOMAIN acc \cup {key} |->
                              IF x = key THEN r.v ELSE acc[x]] IN
              IF j > Len(t) THEN ParseFail
              ELSE CASE t[j].k = "rbrace" -> ParseOk(ObjV(acc2), j + 1)
                     [] t[j].k = "comma" -> ParseMembers(t, j + 1, acc2)
                     [] OTHER -> ParseFail

\* JSON.parse: one value, with nothing but whitespace after it
JSON_parse(t) ==
    LET r == ParseValue(t, 1) IN
    IF r.ok /\ SkipWs(t, r.n) > Len(t)
    THEN [ok |-> TRUE, v |-> r.v]
    ELSE [ok |-> FALSE, v |-> NullV]

\* String.prototype.trim on a response text
RECURSIVE trimStart(_), trimEnd(_)
trimStart(t) == IF t # <<>> /\ Head(t).k = "ws" THEN trimStart(Tail(t)) ELSE t
trimEnd(t) ==
    IF t # <<>> /\ Last(t).k = "ws" THEN trimEnd(SubSeq(t, 1, Len(t) - 1)) ELSE t
trimNothing(t) == t
trim(t) == trimEnd(trimStart(t))

\* ------------------------------------------------------ generateScriptBundle
EmptyResponseMsg ==
    "API returned an empty response. Please try rephrasing your request."
ExpectedStructureMsg == "API did not return the expected file structure."
InvalidFormatMsg ==
    "The API returned an invalid format. This might be due to a complex or unsupported request."
UnknownErrorMsg == "An unknown error occurred."

\* outcomes of a block of code: a returned value or a thrown one
Return(v) == [ok |-> TRUE, value |-> v]
ThrowError(msg) == [ok |-> FALSE, value |-> [isError |-> TRUE, message |-> msg]]
Throw(x) == [ok |-> FALSE, value |-> x]

\* parsed.files: a property read that throws a TypeError on null
HasFiles(v) == v.t = "obj" /\ "files" \in DOMAIN v.members
\* !parsed.files || !Array.isArray(parsed.files)
filesIsArrayTruthyOnly(v) == HasFiles(v) /\ v.members["files"].t # "null"
filesIsArray(v) == HasFiles(v) /\ v.members["files"].t = "arr"

\* the body of the try block, lines 101-105
parseBlock(jsonString) ==
    LET parsed == JSON_parse(jsonString) IN
    IF ~parsed.ok THEN ThrowError("SyntaxError")
    ELSE IF parsed.v.t = "null" THEN ThrowError("TypeError")
    ELSE IF ~filesIsArray(parsed.v) THEN ThrowError(ExpectedStructureMsg)
    ELSE Return(parsed.v.members["files"])

\* try { ... } catch (e) { throw new Error(<invalid format>) }, lines 100-109
parseAndValidate(jsonString) ==
    LET r == parseBlock(jsonString) IN
    IF r.ok THEN r ELSE ThrowError(InvalidFormatMsg)

\* generateScriptBundle from the point the API call settles (lines 84-110).
\* response: [rejected |-> FALSE, text |-> tokens] or
\*           [rejected |-> TRUE, reason |-> thrown value]
generateScriptBundle(response) ==
    IF response.rejected THEN Throw(response.reason)
    ELSE LET jsonString == trim(response.text) IN
         IF jsonString = <<>> THEN ThrowError(EmptyResponseMsg)
         ELSE parseAndValidate(jsonString)

\* ------------------------------------------------------------- file names
Slash == "/"
NameChars == {"a", "0", Slash}
Digits == {"0", "1", "2", "3", "4", "5", "6", "7", "8", "9"}

\* name.split('/'): the segments between the separators, empty ones included
RECURSIVE splitFrom(_, _, _)
splitFrom(name, i, cur) ==
    IF i > Len(name) THEN <<cur>>
    ELSE IF name[i] = Slash THEN <<cur>> \o splitFrom(name, i + 1, <<>>)
    ELSE splitFrom(name, i + 1, Append(cur, name[i]))
split(name) == splitFrom(name, 1, <<>>)

\* A property key that names an element of an array: the canonical decimal
\* form of an index ("0", "1", "10", ... but not "", "00" or "a").
IsArrayIndex(part) ==
    /\ part # <<>>
    /\ \A i \in 1..Len(part) : part[i] \in Digits
    /\ (Len(part) > 1 => part[1] # "0")
    /\ Len(part) <= 9

\* localeCompare on the characters used here: digits sort before letters,
\* a shorter string before its extensions.
CharRank(c) == CASE c = "0" -> 0 [] c = "a" -> 1 [] c = "b" -> 2 [] OTHER -> 3
RECURSIVE localeCompare(_, _)
localeCompare(a, b) ==
    IF a = <<>> /\ b = <<>> THEN 0
    ELSE IF a = <<>> THEN -1
    ELSE IF b = <<>> THEN 1
    ELSE IF CharRank(Head(a)) < CharRank(Head(b)) THEN -1
    ELSE IF CharRank(Head(a)) > CharRank(Head(b)) THEN 1
    ELSE localeCompare(Tail(a), Tail(b))

\* ------------------------------------------------------------ buildFileTree
\* The object tree under construction is a map from key paths to nodes: the
\* node stored under key p[n] of the children of the node at p[1..n-1].
\* Level 1 is the plain object `root`; every deeper level is the `children`
\* array of a folder node, on which a key is an element only if it is an
\* array index and a named property otherwise.
FolderNode(part) == [name |-> part, type |-> "folder"]
FileNode(part, fileName) == [name |-> part, type |-> "file", path |-> fileName]
EmptyTree == [p \in {} |-> FolderNode(<<>>)]

IsPrefixOf(p, q) == Len(p) <= Len(q) /\ SubSeq(q, 1, Len(p)) = p

\* currentLevel[part] = node: the node replaces what the key held, and what
\* hung below the replaced node goes with it
setNode(tree, p, node) ==
    [q \in {x \in DOMAIN tree : ~IsPrefixOf(p, x)} \cup {p} |->
        IF q = p THEN node ELSE tree[q]]

\* parts.forEach(...) of one file from segment i on (lines 61-72)
RECURSIVE walkParts(_, _, _, _)
walkParts(tree, parts, i, fileName) ==
    LET p == SubSeq(parts, 1, i) IN
    IF i = Len(parts)
    THEN [threw |-> FALSE, tree |-> setNode(tree, p, FileNode(parts[i], fileName))]
    ELSE IF p \notin DOMAIN tree
    THEN walkParts(setNode(tree, p, FolderNode(parts[i])), parts, i + 1, fileName)
    ELSE IF tree[p].type = "folder"
    THEN walkParts(tree, parts, i + 1, fileName)
    \* a file node has no children: currentLevel becomes undefined and the
    \* next segment's access throws a TypeError
    ELSE [threw |-> TRUE, tree |-> tree]

\* files.forEach(...) from file k on (lines 57-73)
RECURSIVE addFiles(_, _, _)
addFiles(tree, fs, k) ==
    IF k > Len(fs) THEN [threw |-> FALSE, tree |-> tree]
    ELSE LET r == walkParts(tree, split(fs[k].name), 1, fs[k].name) IN
         IF r.threw THEN r ELSE addFiles(r.tree, fs, k + 1)

\* the comparator of treeToArray (lines 77-81)
nodeBefore(a, b) ==
    IF a.type = "folder" /\ b.type = "file" THEN TRUE
    ELSE IF a.type = "file" /\ b.type = "folder" THEN FALSE
    ELSE localeCompare(a.name, b.name) < 0

\* treeToArray(root): the values of the root object, sorted (lines 76-82)
RECURSIVE sortNodes(_)
sortNodes(S) ==
    IF S = {} THEN <<>>
    ELSE LET first == CHOOSE a \in S : \A b \in S \ {a} : nodeBefore(a, b)
         IN <<first>> \o sortNodes(S \ {first})
treeToArray(tree) == sortNodes({tree[p] : p \in {q \in DOMAIN tree : Len(q) = 1}})

\* buildFileTree(files): the sorted top-level array and, below it, the object
\* tree its folder nodes hold (lines 54-85)
buildFileTree(fs) ==
    LET r == addFiles(EmptyTree, fs, 1) IN
    IF r.threw THEN [threw |-> TRUE, roots |-> <<>>, nodes |-> EmptyTree]
    ELSE [threw |-> FALSE, roots |-> treeToArray(r.tree), nodes |-> r.tree]

\* --------------------------------------------- FileTreeView / FileTreeItem
\* nodes.map at the top level renders every node of the array; a folder item
\* renders node.children.map(...), which visits the elements of the array
\* and none of its named properties (lines 293-329, folders open as they
\* are initially).
childrenMapVisits(key) == IsArrayIndex(key)

IsRendered(p) == \A i \in 2..Len(p) : childrenMapVisits(p[i])

\* the paths handed to onFileClick by the file leaves FileTreeView renders
renderedLeaves(t) ==
    {q \in DOMAIN t.nodes : t.nodes[q].type = "file" /\ IsRendered(q)}

\* ------------------------------------------------------ createAndDownloadZip
\* zip.file(name, content) for each file in turn: the archive holds one entry
\* per name, the content of the last file added under it (lines 10-14)
RECURSIVE zipFiles(_, _, _)
zipFiles(zip, fs, k) ==
    IF k > Len(fs) THEN zip
    ELSE zipFiles([n \in DOMAIN zip \cup {fs[k].name} |->
                      IF n = fs[k].name THEN fs[k].content ELSE zip[n]],
                  fs, k + 1)
EmptyZip == [n \in {} |-> ""]

\* what the browser is handed: the arguments and the archive (lines 9-34)
createAndDownloadZip(fs, zipName) ==
    [files |-> fs, archive |-> zipFiles(EmptyZip, fs, 1), zipName |-> zipName]

\* ------------------------------------------------------------ App: helpers
Space == " "
isBlank(p) == \A i \in 1..Len(p) : p[i] = Space          \* !prompt.trim()

ImagePlaceholder == "User uploaded an image."
AiContent == <<"Project files are ready or have been updated.">>

\* [...chatHistory].reverse().find(m => m.files)?.files  (lines 144, 166, 174)
RECURSIVE findLatestFiles(_, _)
findLatestFiles(h, i) ==
    IF i = 0 THEN None
    ELSE IF h[i].files # None THEN h[i].files
    ELSE findLatestFiles(h, i - 1)
latestFilesOf(h) == findLatestFiles(h, Len(h))

HasModuleSystem(lang) == lang \in {"javascript", "typescript"}

\* constructFullPrompt (lines 129-137): the pieces of the template, in order
constructFullPromptFor(first, lang, plat, mod, db, p) ==
    IF first
    THEN <<"**Initial Project Specifications:**", "\n",
           "- Language: ", lang, "\n",
           "- Platform: ", plat, "\n">>
         \o (IF HasModuleSystem(lang) THEN <<"- Module System: ", mod>> ELSE <<>>)
         \o <<"\n", "- Database: ", db, "\n", "\n", "**User Request:**", "\n">>
         \o p
    ELSE <<"**Follow-up Request:**", "\n">> \o p
constructFullPrompt ==
    constructFullPromptFor(isFirstRequest, language, platform, moduleSystem,
                           database, prompt)

\* the archive name of handleDownload (lines 169-170)
RECURSIVE trimStartP(_), trimEndP(_), dashRuns(_, _)
trimStartP(p) == IF p # <<>> /\ Head(p) = Space THEN trimStartP(Tail(p)) ELSE p
trimEndP(p) ==
    IF p # <<>> /\ Last(p) = Space THEN trimEndP(SubSeq(p, 1, Len(p) - 1)) ELSE p
\* replace(/\s+/g, '-') then replace(/[^a-z0-9-]/g, '')
dashRuns(p, inRun) ==
    IF p = <<>> THEN <<>>
    ELSE IF Head(p) = Space
    THEN (IF inRun THEN <<>> ELSE <<"-">>) \o dashRuns(Tail(p), TRUE)
    ELSE (IF Head(p) \in {"x", "0", "a", "b", "-"} THEN <<Head(p)>> ELSE <<>>)
         \o dashRuns(Tail(p), FALSE)
RECURSIVE firstUserContent(_, _)
firstUserContent(h, i) ==
    IF i > Len(h) THEN <<>>
    ELSE IF h[i].type = "user" THEN h[i].content
    ELSE firstUserContent(h, i + 1)
projectName(h) ==
    LET first == firstUserContent(h, 1)
        msg == IF first = <<>> THEN <<"ai-project">> ELSE first
        name == dashRuns(trimEndP(trimStartP(msg)), FALSE)
    IN IF name = <<>> THEN <<"ai-generated-project">> ELSE name

\* the component's render (lines 174-175): it throws when buildFileTree does,
\* and React then unmounts the App, which takes no further events
latestFiles == latestFilesOf(chatHistory)
renderedTree ==
    IF latestFiles = None THEN [threw |-> FALSE, roots |-> <<>>, nodes |-> EmptyTree]
    ELSE buildFileTree(latestFiles[1])
Crashed == renderedTree.threw
\* fileTree.length > 0: the tree and the Download button are shown (line 218)
DownloadShown == ~Crashed /\ Len(renderedTree.roots) > 0

\* ------------------------------------------------------------ App: inputs
Prompts == {<<>>, <<Space>>, <<"x">>}
Languages == {"javascript", "python"}
Platforms == {"web"}
ModuleSystems == {"esm", "commonjs"}
Databases == {"none"}
Images == {[file |-> [name |-> <<"a">>], preview |-> "blob:a", base64 |-> "AAAA"]}

FileA == [name |-> <<"a">>, content |-> "c1"]
FileAB == [name |-> <<"a", Slash, "b">>, content |-> "c2"]
File0 == [name |-> <<"b", Slash, "0">>, content |-> "c3"]

ResponseText(t) == [rejected |-> FALSE, text |-> t,
                    reason |-> [isError |-> FALSE, message |-> ""]]
Rejection(isErr, msg) == [rejected |-> TRUE, text |-> <<>>,
                          reason |-> [isError |-> isErr, message |-> msg]]
FilesObject(elems) == <<LBRACE, KEY("files"), LBRACK>> \o elems \o <<RBRACK, RBRACE>>

\* what the API call can settle with
Responses ==
    { ResponseText(<<>>),                                     \* empty
      ResponseText(<<WS, WS>>),                               \* whitespace only
      ResponseText(<<LBRACE, KEY("files")>>),                 \* not JSON
      ResponseText(<<LBRACE, RBRACE>>),                       \* no files member
      ResponseText(<<LBRACE, KEY("files"), NULLTOK, RBRACE>>),
      ResponseText(FilesObject(<<>>)),
      ResponseText(<<WS>> \o FilesObject(<<FILETOK(FileAB), COMMA, FILETOK(File0)>>)
                     \o <<WS>>),
      ResponseText(FilesObject(<<FILETOK(FileA), COMMA, FILETOK(FileAB)>>)),
      Rejection(TRUE, "Failed to fetch"),
      Rejection(FALSE, "") }

\* JSON.parse's array of objects read as GeneratedFile[] (the cast of line 101)
asGeneratedFiles(arr) == [i \in DOMAIN arr.elems |-> arr.elems[i].members]

NumTurns(h) == Cardinality({i \in DOMAIN h : h[i].type = "user"})

\* ------------------------------------------------------------ App: actions
AppInit ==
    /\ prompt = <<>>
    /\ language = "javascript"
    /\ platform = "web"
    /\ moduleSystem = "esm"
    /\ database = "none"
    /\ image = None
    /\ chatHistory = <<>>
    /\ isFirstRequest = TRUE
    /\ isLoading = FALSE
    /\ error = ""
    /\ viewingFile = None
    /\ requests = <<>>
    /\ apiCalls = 0
    /\ guardHit = FALSE
    /\ downloaded = None

\* textarea onChange (line 270; the textarea is disabled while loading)
setPrompt ==
    /\ ~Crashed /\ ~isLoading
    /\ prompt' \in Prompts
    /\ UNCHANGED <<language, platform, moduleSystem, database, image, chatHistory,
                   isFirstRequest, isLoading, error, viewingFile, requests,
                   apiCalls, guardHit, downloaded>>
    /\ UNCHANGED harnessVars

\* the selects of the Initial Setup panel (lines 194-212)
OptionsShown == ~Crashed /\ isFirstRequest /\ ~isLoading
setLanguage ==
    /\ OptionsShown
    /\ language' \in Languages
    /\ UNCHANGED <<prompt, platform, moduleSystem, database, image, chatHistory,
                   isFirstRequest, isLoading, error, viewingFile, requests,
                   apiCalls, guardHit, downloaded>>
    /\ UNCHANGED harnessVars

setPlatform ==
    /\ OptionsShown
    /\ platform' \in Platforms
    /\ UNCHANGED <<prompt, language, moduleSystem, database, image, chatHistory,
                   isFirstRequest, isLoading, error, viewingFile, requests,
                   apiCalls, guardHit, downloaded>>
    /\ UNCHANGED harnessVars

setModuleSystem ==
    /\ OptionsShown /\ HasModuleSystem(language)
    /\ moduleSystem' \in ModuleSystems
    /\ UNCHANGED <<prompt, language, platform, database, image, chatHistory,
                   isFirstRequest, isLoading, error, viewingFile, requests,
                   apiCalls, guardHit, downloaded>>
    /\ UNCHANGED harnessVars

setDatabase ==
    /\ OptionsShown
    /\ database' \in Databases
    /\ UNCHANGED <<prompt, language, platform, moduleSystem, image, chatHistory,
                   isFirstRequest, isLoading, error, viewingFile, requests,
                   apiCalls, guardHit, downloaded>>
    /\ UNCHANGED harnessVars

\* handleImageChange (lines 121-127): the file is read asynchronously, so the
\* setImage of line 125 can land at any later time
handleImageChange ==
    /\ ~Crashed
    /\ \E img \in Images : image' = Some(img)
    /\ UNCHANGED <<prompt, language, platform, moduleSystem, database, chatHistory,
                   isFirstRequest, isLoading, error, viewingFile, requests,
                   apiCalls, guardHit, downloaded>>
    /\ UNCHANGED harnessVars

\* the Remove button of the image preview (line 260)
removeImage ==
    /\ ~Crashed /\ image # None
    /\ image' = None
    /\ UNCHANGED <<prompt, language, platform, moduleSystem, database, chatHistory,
                   isFirstRequest, isLoading, error, viewingFile, requests,
                   apiCalls, guardHit, downloaded>>
    /\ UNCHANGED harnessVars

\* setIsLoading(true) of line 147 and setIsLoading(false) of line 161
loadingAfterSubmitForgotten == FALSE
loadingAfterSubmit == TRUE
loadingAfterSettleForgotten == TRUE
loadingAfterSettle == FALSE

\* if(isFirstRequest) setIsFirstRequest(false)  (line 155), with the
\* isFirstRequest the invocation captured when it was submitted
firstRequestNeverCleared(captured, current) == current
firstRequestAfterSuccess(captured, current) == IF captured THEN FALSE ELSE current

\* the guard of line 141
submitRefused == isBlank(prompt) \/ isLoading

\* handleSubmit up to its await (lines 139-153)
handleSubmit ==
    /\ ~Crashed
    /\ IF submitRefused
       THEN /\ guardHit' = TRUE
            /\ UNCHANGED <<prompt, language, platform, moduleSystem, database, image,
                           chatHistory, isFirstRequest, isLoading, error, viewingFile,
                           requests, apiCalls, downloaded>>
       ELSE /\ NumTurns(chatHistory) < MaxTurns
            /\ LET currentPrompt == constructFullPrompt
                   found == latestFilesOf(chatHistory)
                   currentFiles == IF found = None THEN <<>> ELSE found[1]
               IN /\ chatHistory' = Append(chatHistory,
                        [type |-> "user", content |-> prompt,
                         files |-> IF image # None
                                   THEN Some(<<[name |-> image[1].file.name,
                                                content |-> ImagePlaceholder]>>)
                                   ELSE None])
                  /\ requests' = Append(requests,
                        [prompt |-> currentPrompt,
                         existingFiles |-> currentFiles,
                         imageBase64 |-> IF image # None THEN Some(image[1].base64)
                                         ELSE None,
                         isFirstRequest |-> isFirstRequest,
                         response |-> None])
            /\ isLoading' = loadingAfterSubmit
            /\ error' = ""
            /\ prompt' = <<>>
            /\ image' = None
            /\ apiCalls' = apiCalls + 1
            /\ guardHit' = FALSE
            /\ UNCHANGED <<language, platform, moduleSystem, database,
                           isFirstRequest, viewingFile, downloaded>>
    /\ UNCHANGED harnessVars

\* ai.models.generateContent settles (geminiService.ts:84-93)
apiSettles ==
    \E i \in DOMAIN requests, r \in Responses :
        /\ requests[i].response = None
        /\ requests' = [requests EXCEPT ![i].response = Some(r)]
        /\ UNCHANGED <<prompt, language, platform, moduleSystem, database, image,
                       chatHistory, isFirstRequest, isLoading, error, viewingFile,
                       apiCalls, guardHit, downloaded>>
    /\ UNCHANGED harnessVars

RemoveAt(s, i) == SubSeq(s, 1, i - 1) \o SubSeq(s, i + 1, Len(s))

\* err instanceof Error ? err.message : 'An unknown error occurred.'
errorMessageOf(err) == IF err.isError THEN err.message ELSE UnknownErrorMsg

\* the API calls made once the catch block has run: it reports the failure
\* and calls nothing (lines 156-159)
callsAfterFailureRetried(n) == n + 1
callsAfterFailure(n) == n

\* handleSubmit from its await on (lines 153-162)
resumeSubmit ==
    \E i \in DOMAIN requests :
        /\ requests[i].response # None
        /\ LET result == generateScriptBundle(requests[i].response[1]) IN
           IF result.ok
           THEN /\ chatHistory' = Append(chatHistory,
                      [type |-> "ai", content |-> AiContent,
                       files |-> Some(asGeneratedFiles(result.value))])
                /\ isFirstRequest' =
                      firstRequestAfterSuccess(requests[i].isFirstRequest,
                                               isFirstRequest)
                /\ UNCHANGED <<error, apiCalls>>
           ELSE LET errorMessage == errorMessageOf(result.value) IN
                /\ error' = errorMessage
                /\ chatHistory' = Append(chatHistory,
                      [type |-> "system", content |-> <<"Error: ", errorMessage>>,
                       files |-> None])
                /\ apiCalls' = callsAfterFailure(apiCalls)
                /\ UNCHANGED isFirstRequest
        /\ isLoading' = loadingAfterSettle
        /\ requests' = RemoveAt(requests, i)
        /\ UNCHANGED <<prompt, language, platform, moduleSystem, database, image,
                       viewingFile, guardHit, downloaded>>
    /\ UNCHANGED harnessVars

\* handleDownload (lines 165-172), from the Download button (line 223)
handleDownload ==
    /\ DownloadShown
    /\ IF latestFiles = None
       THEN UNCHANGED downloaded
       ELSE downloaded' =
              Some(createAndDownloadZip(latestFiles[1],
                                        projectName(chatHistory) \o <<".zip">>))
    /\ UNCHANGED <<prompt, language, platform, moduleSystem, database, image,
                   chatHistory, isFirstRequest, isLoading, error, viewingFile,
                   requests, apiCalls, guardHit>>
    /\ UNCHANGED harnessVars

\* latestFiles?.find(f => f.name === path)  (line 178)
RECURSIVE findByName(_, _, _)
findByName(fs, path, k) ==
    IF k > Len(fs) THEN None
    ELSE IF fs[k].name = path THEN Some(fs[k])
    ELSE findByName(fs, path, k + 1)

\* handleFileClick (lines 177-182): the file the viewer shows afterwards
fileClickResult(fs, path, current) ==
    LET file == findByName(fs, path, 1) IN
    IF file # None THEN file ELSE current

\* --------------------------------------------------------- parse harness
ParseAlphabet == {WS, LBRACE, RBRACE, LBRACK, RBRACK, NULLTOK, KEY("files")}
NoBundle == [pending |-> TRUE]

ParseInit ==
    /\ responseText \in SeqsUpTo(ParseAlphabet, MaxTextLen)
    /\ bundle = NoBundle

Generate ==
    /\ bundle = NoBundle
    /\ bundle' = generateScriptBundle(ResponseText(responseText))
    /\ UNCHANGED <<responseText, appVars, treeVars>>

\* ---------------------------------------------------------- tree harness
Contents == <<"c1", "c2", "c3", "c4">>
Names == SeqsUpTo(NameChars, MaxNameLen) \ {<<>>}
\* file lists whose i-th file has the i-th content
FileLists ==
    {[i \in DOMAIN ns |-> [name |-> ns[i], content |-> Contents[i]]] :
        ns \in SeqsUpTo(Names, MaxFiles)}
NoTree == [pending |-> TRUE]

TreeInit ==
    /\ files \in FileLists
    /\ fileTree = NoTree

otherAppVars == <<prompt, language, platform, moduleSystem, database, image,
                  chatHistory, isFirstRequest, isLoading, error, requests,
                  apiCalls, guardHit, downloaded>>

\* const fileTree = latestFiles ? buildFileTree(latestFiles) : []  (line 175),
\* with `files` as the latest file set
Render ==
    /\ fileTree = NoTree
    /\ fileTree' = buildFileTree(files)
    /\ UNCHANGED <<files, viewingFile, otherAppVars, parseVars>>

\* a click on a rendered file leaf (line 324) runs handleFileClick
handleFileClick ==
    /\ fileTree # NoTree /\ ~fileTree.threw
    /\ \E q \in renderedLeaves(fileTree) :
          viewingFile' = fileClickResult(files, fileTree.nodes[q].path, viewingFile)
    /\ UNCHANGED <<files, fileTree, otherAppVars, parseVars>>

\* a click on the Download button (line 223), shown when the tree is not
\* empty, runs handleDownload with `files` as the latest file set
downloadLatest ==
    /\ fileTree # NoTree /\ ~fileTree.threw /\ Len(fileTree.roots) > 0
    /\ downloaded' =
          Some(createAndDownloadZip(files, projectName(chatHistory) \o <<".zip">>))
    /\ UNCHANGED <<files, fileTree, viewingFile, prompt, language, platform,
                   moduleSystem, database, image, chatHistory, isFirstRequest,
                   isLoading, error, requests, apiCalls, guardHit, parseVars>>

\* onClose of the CodeViewerModal (line 287)
closeViewer ==
    /\ viewingFile # None
    /\ viewingFile' = None
    /\ UNCHANGED <<files, fileTree, otherAppVars, parseVars>>

\* ----------------------------------------------------------- specifications
Init ==
    /\ AppInit
    /\ responseText = <<>> /\ bundle = NoBundle
    /\ files = <<>> /\ fileTree = NoTree

Next ==
    \/ setPrompt
    \/ setLanguage
    \/ setPlatform
    \/ setModuleSystem
    \/ setDatabase
    \/ handleImageChange
    \/ removeImage
    \/ handleSubmit
    \/ apiSettles
    \/ resumeSubmit
    \/ handleDownload

Spec == Init /\ [][Next]_vars

\* The continuation of an await runs once the awaited promise has settled.
\* resumes is resumeSubmit as `requests` shows it: enabled exactly when a
\* settled invocation waits, and taken by exactly the steps of resumeSubmit.
resumes ==
    \E i \in DOMAIN requests :
        requests[i].response # None /\ requests' = RemoveAt(requests, i)
FairSpec == Spec /\ WF_requests(resumes)

ParseSpecInit == AppInit /\ ParseInit /\ files = <<>> /\ fileTree = NoTree
ParseNext == Generate
ParseSpec == ParseSpecInit /\ [][ParseNext]_vars

TreeSpecInit == AppInit /\ TreeInit /\ responseText = <<>> /\ bundle = NoBundle
TreeNext ==
    \/ Render
    \/ handleFileClick
    \/ closeViewer
    \/ downloadLatest
TreeSpec == TreeSpecInit /\ [][TreeNext]_vars

\* ------------------------------------------------------------------ claims
IsAi(m) == m.type = "ai"
HasAiTurn(h) == \E i \in DOMAIN h : IsAi(h[i])
\* the files of the most recent assistant turn, or the empty list
LastAssistantFiles(h) ==
    IF ~HasAiTurn(h) THEN <<>>
    ELSE LET i == CHOOSE k \in DOMAIN h :
                     IsAi(h[k]) /\ \A j \in DOMAIN h : j > k => ~IsAi(h[j])
         IN h[i].files[1]
FileSet(fs) == {fs[i] : i \in DOMAIN fs}

\* C1: the existingFiles of every request in flight are the files of the most
\* recent successful assistant response, or the empty list if there is none.
C1_ExistingFilesAreLastResponse ==
    \A i \in DOMAIN requests :
        requests[i].existingFiles = LastAssistantFiles(chatHistory)

\* C2: at most one request is in flight, and a handleSubmit run while the
\* loading flag is set calls nothing and leaves history, prompt, image, error
\* and first-request flag as they were.
C2_OneRequestInFlight ==
    /\ [](Len(requests) <= 1)
    /\ [][(isLoading /\ handleSubmit) =>
            /\ apiCalls' = apiCalls
            /\ requests' = requests
            /\ UNCHANGED <<chatHistory, prompt, image, error, isFirstRequest>>]_vars
C2_Witness == isLoading /\ guardHit /\ Len(requests) = 1 /\ apiCalls = 1

\* C3: every download hands createAndDownloadZip exactly the files of the most
\* recent assistant response, and the archive holds exactly those files.
C3_DownloadIsLastResponse ==
    [][(downloaded' # downloaded /\ downloaded' # None) =>
          /\ HasAiTurn(chatHistory)
          /\ downloaded'[1].files = LastAssistantFiles(chatHistory)
          /\ DOMAIN downloaded'[1].archive =
                {f.name : f \in FileSet(LastAssistantFiles(chatHistory))}
          /\ \A f \in FileSet(LastAssistantFiles(chatHistory)) :
                downloaded'[1].archive[f.name] = f.content]_vars

\* C4: for a file list with distinct names the rendered tree has exactly one
\* file leaf per input file, each with the file's name as its path and placed
\* under one folder per directory segment of that name.
DistinctNames(fs) == \A i, j \in DOMAIN fs : fs[i].name = fs[j].name => i = j
C4_TreeHasEveryFile ==
    (fileTree # NoTree /\ DistinctNames(files)) =>
        /\ ~fileTree.threw
        /\ {fileTree.nodes[q].path : q \in renderedLeaves(fileTree)}
              = {f.name : f \in FileSet(files)}
        /\ Cardinality(renderedLeaves(fileTree)) = Len(files)
        /\ \A q \in renderedLeaves(fileTree) :
              /\ q = split(fileTree.nodes[q].path)
              /\ \A n \in 1..(Len(q) - 1) :
                    /\ SubSeq(q, 1, n) \in DOMAIN fileTree.nodes
                    /\ fileTree.nodes[SubSeq(q, 1, n)].type = "folder"

\* C5: when the response text is empty or only whitespace, the request fails
\* with the empty-response error: the error shown is that message, and the
\* history gains exactly one system turn "Error: <message>" without files.
IsBlankText(t) == \A i \in DOMAIN t : t[i] = WS
C5_EmptyResponseReported ==
    [][(/\ Len(requests) = 1
        /\ requests' = <<>>
        /\ ~requests[1].response[1].rejected
        /\ IsBlankText(requests[1].response[1].text)) =>
          /\ error' = EmptyResponseMsg
          /\ chatHistory' = Append(chatHistory,
                [type |-> "system",
                 content |-> <<"Error: ", EmptyResponseMsg>>,
                 files |-> None])]_vars
C5_Witness ==
    /\ ~isLoading /\ error = EmptyResponseMsg
    /\ chatHistory # <<>>
    /\ Last(chatHistory).type = "system"
    /\ Last(chatHistory).content = <<"Error: ", EmptyResponseMsg>>

\* C6: generateScriptBundle resolves exactly when the trimmed text parses as a
\* JSON value whose "files" member is an array, and then with that array; in
\* every other case it rejects with an Error.
ParsedTrimmed(t) == JSON_parse(trim(t))
IsFilesArrayJson(t) ==
    /\ ParsedTrimmed(t).ok
    /\ ParsedTrimmed(t).v.t = "obj"
    /\ "files" \in DOMAIN ParsedTrimmed(t).v.members
    /\ ParsedTrimmed(t).v.members["files"].t = "arr"
C6_ResolvesOnlyWithFilesArray ==
    bundle # NoBundle =>
        /\ bundle.ok <=> IsFilesArrayJson(responseText)
        /\ bundle.ok => bundle.value = ParsedTrimmed(responseText).v.members["files"]
        /\ ~bundle.ok => bundle.value.isError
C6_Witness ==
    /\ bundle # NoBundle
    /\ bundle.ok
    /\ Len(bundle.value.elems) > 0

\* C7: every accepted submission makes exactly one API call and nothing else
\* makes one: the calls made equal the user turns of the history.
C7_OneCallPerSubmission == apiCalls = NumTurns(chatHistory)
C7_Witness ==
    /\ apiCalls = 2 /\ ~isLoading
    /\ \A i \in {2, 4} : i \in DOMAIN chatHistory /\ chatHistory[i].type = "system"

\* C8: a response that parses as a JSON array or object without an array
\* "files" member is rejected with the message "API did not return the
\* expected file structure."
C8_ExpectedStructureMessage ==
    (/\ bundle # NoBundle
     /\ ParsedTrimmed(responseText).ok
     /\ ParsedTrimmed(responseText).v.t # "null"
     /\ ~IsFilesArrayJson(responseText)) =>
        /\ ~bundle.ok
        /\ bundle.value.message = ExpectedStructureMsg

\* C9: the loading flag is set exactly while a request is in flight, it is
\* cleared once the call has settled, and a non-blank submission made while
\* it is clear is accepted.
Settled == \E i \in DOMAIN requests : requests[i].response # None
C9_LoadingFollowsRequest ==
    /\ [](isLoading <=> requests # <<>>)
    /\ (Settled ~> ~isLoading)
    /\ [][(handleSubmit /\ ~isLoading /\ ~isBlank(prompt)) =>
            (isLoading' /\ Len(requests') = 1)]_vars
C9_Witness ==
    /\ isLoading
    /\ Len(chatHistory) = 3
    /\ chatHistory[2].type = "system"

\* C10: a request carries the "Initial Project Specifications" header, with
\* language, platform and database and with the module system only for
\* javascript/typescript, exactly when no request has succeeded before it,
\* and is a "Follow-up Request" otherwise; the first-request flag is true
\* exactly until the first success and never becomes true again.
Follows(p, label, value) ==
    \E j \in 1..(Len(p) - 1) : p[j] = label /\ p[j + 1] = value
Mentions(p, label) == \E j \in DOMAIN p : p[j] = label
InitialHeader == "**Initial Project Specifications:**"
FollowUpHeader == "**Follow-up Request:**"
C10_InitialPromptUntilSuccess ==
    /\ [](isFirstRequest <=> ~HasAiTurn(chatHistory))
    /\ [](\A i \in DOMAIN requests :
            LET p == requests[i].prompt IN
            IF HasAiTurn(chatHistory)
            THEN p[1] = FollowUpHeader /\ ~Mentions(p, InitialHeader)
            ELSE /\ p[1] = InitialHeader
                 /\ Follows(p, "- Language: ", language)
                 /\ Follows(p, "- Platform: ", platform)
                 /\ Follows(p, "- Database: ", database)
                 /\ (Mentions(p, "- Module System: ")
                       <=> language \in {"javascript", "typescript"})
                 /\ (language \in {"javascript", "typescript"}
                       => Follows(p, "- Module System: ", moduleSystem)))
    /\ [][isFirstRequest' => isFirstRequest]_vars
C10_Witness ==
    /\ requests # <<>>
    /\ requests[1].prompt[1] = FollowUpHeader
    /\ ~isFirstRequest

\* C11: the history only grows, one turn at a time: an accepted submission
\* appends a user turn, a settled request an assistant turn on success and a
\* system turn on failure; so user turns and answers alternate and only the
\* last user turn can be unanswered, and only while loading.
Succeeds(response) == ~response.rejected /\ IsFilesArrayJson(response.text)
Alternates(h) ==
    \A i \in DOMAIN h :
        IF i % 2 = 1 THEN h[i].type = "user" ELSE h[i].type \in {"ai", "system"}
C11_HistoryAlternates ==
    /\ [](Alternates(chatHistory) /\ (Len(chatHistory) % 2 = 1 => isLoading))
    /\ [][\/ chatHistory' = chatHistory
          \/ /\ Len(chatHistory') = Len(chatHistory) + 1
             /\ SubSeq(chatHistory', 1, Len(chatHistory)) = chatHistory
             /\ IF Len(requests') > Len(requests)
                THEN Last(chatHistory').type = "user"
                ELSE /\ Len(requests') < Len(requests)
                     /\ Last(chatHistory').type =
                          (IF Succeeds(requests[1].response[1])
                           THEN "ai" ELSE "system")]_vars
C11_Witness ==
    /\ ~isLoading
    /\ Len(chatHistory) = 4
    /\ chatHistory[2].type = "system"
    /\ chatHistory[4].type = "ai"

\* C12: the content the viewer shows for a clicked file leaf is the content
\* the archive holds under the same path, also when names repeat.
C12_ViewerMatchesArchive ==
    (viewingFile # None /\ downloaded # None) =>
        /\ viewingFile[1].name \in DOMAIN downloaded[1].archive
        /\ downloaded[1].archive[viewingFile[1].name] = viewingFile[1].content

\* C13: buildFileTree returns a tree for every file list, and every file of
\* the list has its file node in it, also when one name is a directory
\* prefix of another.
C13_BuildFileTreeKeepsEveryFile ==
    fileTree # NoTree =>
        /\ ~fileTree.threw
        /\ \A i \in DOMAIN files :
              \E q \in DOMAIN fileTree.nodes :
                 /\ fileTree.nodes[q].type = "file"
                 /\ fileTree.nodes[q].path = files[i].name

====
